---------------------------- MODULE Spec2Model ----------------------------
(***************************************************************************)
(* Flipper desktop client: the Android device watcher (androidDevice       *)
(* dispatcher) and the plugin admission pipeline (plugins dispatcher).     *)
(*                                                                         *)
(* The watcher is a single-threaded, callback-driven state machine: every  *)
(* action below is one callback (tracker event handler, promise            *)
(* continuation, timer) run to completion.                                 *)
(***************************************************************************)
EXTENDS Integers, Sequences, FiniteSets, TLC

(***************************************************************************)
(* Bounds of the model.                                                    *)
(***************************************************************************)
MaxInputs == 3        \* tracker events and errors, cleanup calls, tool results
MaxPlugins == 2       \* length of the descriptor list
MaxMenuSteps == 4     \* store notifications, plugin activations, menu clicks

(***************************************************************************)
(* Program constants.                                                      *)
(***************************************************************************)
RestartDelay == 500   \* setTimeout(watchAndroidDevices, 500)

Ids == {"emulator-5554", "FA6AB0301"}
EmulatorIds == {"emulator-5554"}
DeviceTypes == {"device", "emulator", "offline"}

VARIABLES
    devices,        \* store.getState().connections.devices
    pending,        \* registerDevice calls awaiting createDevice
    watcher,        \* position of watchAndroidDevices' promise chain
    timers,         \* delays of the scheduled setTimeout(watchAndroidDevices)
    adbUp,          \* the adb server is reachable
    killQueued,     \* cleanup calls whose getAdbClient() has not resolved yet
    unhandled,      \* an error escaped (rethrown from a handler or a catch)
    avdPending,     \* outstanding `emulator -list-avds` executions
    androidEmulators, \* payload of the last REGISTER_ANDROID_EMULATORS
    evCount,        \* inputs delivered so far (tracker events and errors,
                    \* cleanup calls, results of `emulator -list-avds`)
    closedCount,    \* 'Connection closed' tracker errors delivered so far
    stopCalls,      \* calls of the cleanup method so far
    lastEvent,      \* per id, what the last tracker event for it asked for
    dispatched,     \* per id, the events whose dispatches have reached the store,
                    \* and whether the id had an archived entry just before
    otherErrors,    \* tracker errors other than 'Connection closed' delivered
    avdFailed,      \* the `emulator -list-avds` execution that ended last failed
    isProduction,   \* isProduction()
    indexJson,      \* defaultPlugins/index.json: unreadable, or its descriptors
    envPLUGINS,     \* process.env.PLUGINS
    descriptors,    \* [...getBundledPlugins(), ...getDynamicPlugins()]
    config,         \* processConfig: config() throws, or what it returns
    gkActive,       \* the gatekeeper keys GK.get reports active
    statics,        \* static fields of the plugin class exported by PluginA.js
    pc,             \* position of the plugins dispatcher
    passing,        \* the array handed from one stage of the chain to the next
    disabledPlugins,
    gatekeepedPlugins,
    failedPlugins,
    initialPlugins,
    gkCalls,        \* descriptors GK.get was called for, in call order
    run,            \* which run of the plugins dispatcher this is
    firstRun,       \* the four arrays the first run dispatched
    storePlugins,   \* store.getState().plugins: the object and its two maps
    state,          \* the subscriber's `state`: the plugins object seen last
    menuItems,      \* MenuBar's Map from action to electron.MenuItem
    appMenu,        \* plugin items of the application menu, in template order
    enabled,        \* the items of appMenu whose `enabled` is true
    pluginActionHandler, \* MenuBar's pluginActionHandler: whose handler it is
    active,         \* the plugin activateMenuItems was called with last
    menuSteps,      \* notifications, activations and clicks so far
    lastOp,         \* which of them the last one was
    setupCount,     \* calls of setupMenuBar so far
    lastSetup,      \* the plugins argument of the last call of setupMenuBar
    deliveryCount,  \* calls of a plugin's onKeyboardAction so far
    lastDelivery    \* the action and the plugin of the last such call

watcherVars == <<devices, pending, watcher, timers, adbUp, killQueued,
                 unhandled, avdPending, androidEmulators, evCount, closedCount,
                 stopCalls, lastEvent, dispatched, otherErrors, avdFailed>>

sourceVars == <<isProduction, indexJson, envPLUGINS>>

pluginVars == <<sourceVars, descriptors, config, gkActive, statics, pc, passing,
                disabledPlugins, gatekeepedPlugins, failedPlugins,
                initialPlugins, gkCalls, run, firstRun>>

menuVars == <<storePlugins, state, menuItems, appMenu, enabled,
              pluginActionHandler, active, menuSteps, lastOp, setupCount,
              lastSetup, deliveryCount, lastDelivery>>

vars == <<watcherVars, pluginVars, menuVars>>

(***************************************************************************)
(* Sequence helpers.                                                       *)
(***************************************************************************)
Range(s) == {s[i] : i \in 1..Len(s)}

RECURSIVE SeqMap(_, _)
SeqMap(F(_), s) == IF s = <<>> THEN <<>> ELSE <<F(Head(s))>> \o SeqMap(F, Tail(s))

RECURSIVE FoldLeft(_, _, _)
FoldLeft(F(_, _), acc, s) ==
    IF s = <<>> THEN acc ELSE FoldLeft(F, F(acc, Head(s)), Tail(s))

(***************************************************************************)
(* The device registry (connections slice of the store).                   *)
(***************************************************************************)
\* new AndroidDevice(device.id, type, name, adbClient)
AndroidDevice(id, type, name) ==
    [serial |-> id, deviceType |-> type, title |-> name,
     isArchived |-> FALSE, android |-> TRUE]

\* device instanceof AndroidDevice
IsAndroidDevice(device) == device.android

\* device.archive(): the handle kept for the UI after the disconnect
Archive(device) == [device EXCEPT !.isArchived = TRUE, !.android = FALSE]

\* reducer, action UNREGISTER_DEVICES with payload a set of serials
UnregisterDevicesReducer(devs, payload) ==
    SelectSeq(devs, LAMBDA device : device.serial \notin payload)

\* a REGISTER_DEVICE reducer that adds the payload and keeps what is there
RegisterDeviceReducerAppends(devs, payload) == Append(devs, payload)

\* reducer, action REGISTER_DEVICE with payload a device: the registry maps an
\* id to its handle, so the payload takes the place of the entry with its id
RegisterDeviceReducer(devs, payload) ==
    Append(SelectSeq(devs, LAMBDA device : device.serial # payload.serial),
           payload)

\* connections.devices.find(device => device.serial === id)
Find(devs, id) ==
    LET hits == SelectSeq(devs, LAMBDA device : device.serial = id)
    IN  IF hits = <<>> THEN <<>> ELSE <<Head(hits)>>

(***************************************************************************)
(* unregisterDevices(deviceIds): the store after its dispatches.           *)
(***************************************************************************)
\* an unregisterDevices that archives a handle also for an id it did not find
ArchivedDevicesOfUnknownIds(devs, deviceIds) ==
    LET one(id) == LET found == Find(devs, id)
                   IN  IF found = <<>>
                       THEN <<Archive(AndroidDevice(id, "physical", "model"))>>
                       ELSE IF ~found[1].isArchived
                       THEN <<Archive(found[1])>> ELSE <<>>
        step(acc, id) == acc \o one(id)
    IN  FoldLeft(step, <<>>, deviceIds)

ArchivedDevices(devs, deviceIds) ==
    LET one(id) == LET found == Find(devs, id)
                   IN  IF found # <<>> /\ ~found[1].isArchived
                       THEN <<Archive(found[1])>> ELSE <<>>
        step(acc, id) == acc \o one(id)
    IN  FoldLeft(step, <<>>, deviceIds)

UnregisterDevices(devs, deviceIds) ==
    FoldLeft(RegisterDeviceReducer,
             UnregisterDevicesReducer(devs, Range(deviceIds)),
             ArchivedDevices(devs, deviceIds))

(***************************************************************************)
(* registerDevice after its await: the store after its dispatches.         *)
(***************************************************************************)
ReconnectedDevices(devs, androidDevice) ==
    Range(SeqMap(LAMBDA device : device.serial,
                 SelectSeq(devs, LAMBDA device :
                     device.serial = androidDevice.serial /\ device.isArchived)))

\* a registerDevice that dispatches REGISTER_DEVICE only, into a store that
\* keeps the entries it has
RegisterDeviceDispatchKeepsArchived(devs, androidDevice) ==
    Append(SelectSeq(devs, LAMBDA device :
               device.serial # androidDevice.serial \/ device.isArchived),
           androidDevice)

RegisterDeviceDispatch(devs, androidDevice) ==
    RegisterDeviceReducer(
        UnregisterDevicesReducer(devs, ReconnectedDevices(devs, androidDevice)),
        androidDevice)

\* createDevice: the kind of the device
CreateDeviceType(id, type) ==
    IF type # "device" \/ id \in EmulatorIds THEN "emulator" ELSE "physical"

(***************************************************************************)
(* The watcher.                                                            *)
(***************************************************************************)
AvdLists == {<<>>, <<"Pixel_3">>}

WatcherInit ==
    /\ devices = <<>>
    /\ pending = {}
    /\ watcher = "connecting"
    /\ timers = <<>>
    /\ adbUp \in BOOLEAN
    /\ killQueued = 0
    /\ unhandled = FALSE
    /\ avdPending = 1
    /\ androidEmulators = <<>>
    /\ evCount = 0
    /\ closedCount = 0
    /\ stopCalls = 0
    /\ lastEvent = [d \in Ids |-> "none"]
    /\ dispatched = [d \in Ids |-> {}]
    /\ otherErrors = 0
    /\ avdFailed = FALSE

\* registerDevice up to its await: createDevice has asked for the properties
RegisterDevice(ev, device) ==
    pending' = pending \cup
        {[ev |-> ev, id |-> device.id,
          type |-> CreateDeviceType(device.id, device.type),
          stage |-> "props", closed |-> closedCount, stops |-> stopCalls]}

\* unregisterDevices(deviceIds) called for tracker event ev
UnregisterEvent(ev, id) ==
    /\ devices' = UnregisterDevices(devices, <<id>>)
    /\ dispatched' = [dispatched EXCEPT ![id] =
                          @ \cup {[ev |-> ev, kind |-> "unregister",
                                   hadArchived |-> \E i \in DOMAIN devices :
                                       /\ devices[i].serial = id
                                       /\ devices[i].isArchived]}]

\* tracker.on('add')
TrackerAdd(device) ==
    /\ watcher = "tracking" /\ adbUp /\ evCount < MaxInputs
    /\ evCount' = evCount + 1
    /\ IF device.type # "offline"
       THEN /\ RegisterDevice(evCount + 1, device)
            /\ lastEvent' = [lastEvent EXCEPT ![device.id] = "live"]
       ELSE /\ pending' = pending
            /\ lastEvent' = [lastEvent EXCEPT ![device.id] = "none"]
    /\ UNCHANGED <<devices, watcher, timers, adbUp, killQueued, unhandled,
                   avdPending, androidEmulators, closedCount, stopCalls, dispatched>>
    /\ UNCHANGED <<otherErrors, avdFailed>>
    /\ UNCHANGED <<pluginVars, menuVars>>

\* tracker.on('change')
TrackerChange(device) ==
    /\ watcher = "tracking" /\ adbUp /\ evCount < MaxInputs
    /\ evCount' = evCount + 1
    /\ IF device.type = "offline"
       THEN /\ UnregisterEvent(evCount + 1, device.id)
            /\ lastEvent' = [lastEvent EXCEPT ![device.id] = "gone"]
            /\ pending' = pending
       ELSE /\ RegisterDevice(evCount + 1, device)
            /\ lastEvent' = [lastEvent EXCEPT ![device.id] = "live"]
            /\ UNCHANGED <<devices, dispatched>>
    /\ UNCHANGED <<watcher, timers, adbUp, killQueued, unhandled,
                   avdPending, androidEmulators, closedCount, stopCalls>>
    /\ UNCHANGED <<otherErrors, avdFailed>>
    /\ UNCHANGED <<pluginVars, menuVars>>

\* tracker.on('remove')
TrackerRemove(device) ==
    /\ watcher = "tracking" /\ adbUp /\ evCount < MaxInputs
    /\ evCount' = evCount + 1
    /\ UnregisterEvent(evCount + 1, device.id)
    /\ lastEvent' = [lastEvent EXCEPT ![device.id] = "gone"]
    /\ UNCHANGED <<pending, watcher, timers, adbUp, killQueued, unhandled,
                   avdPending, androidEmulators, closedCount, stopCalls>>
    /\ UNCHANGED <<otherErrors, avdFailed>>
    /\ UNCHANGED <<pluginVars, menuVars>>

\* tracker.on('error'), err.message === 'Connection closed'
DeviceIDsToRemove ==
    SeqMap(LAMBDA device : device.serial, SelectSeq(devices, IsAndroidDevice))

TrackerErrorClosed ==
    /\ watcher = "tracking" /\ ~adbUp /\ evCount < MaxInputs
    /\ evCount' = evCount + 1
    /\ closedCount' = closedCount + 1
    /\ devices' = UnregisterDevices(devices, DeviceIDsToRemove)
    /\ timers' = Append(timers, RestartDelay)
    /\ watcher' = "closed"
    /\ UNCHANGED <<pending, adbUp, killQueued, unhandled, avdPending,
                   androidEmulators, stopCalls, lastEvent, dispatched>>
    /\ UNCHANGED <<otherErrors, avdFailed>>
    /\ UNCHANGED <<pluginVars, menuVars>>

\* a handler that treats every tracker error as 'Connection closed'
TrackerErrorOtherReconnects ==
    /\ watcher = "tracking" /\ evCount < MaxInputs
    /\ evCount' = evCount + 1
    /\ otherErrors' = otherErrors + 1
    /\ devices' = UnregisterDevices(devices, DeviceIDsToRemove)
    /\ timers' = Append(timers, RestartDelay)
    /\ watcher' = "closed"
    /\ UNCHANGED <<pending, adbUp, killQueued, unhandled, avdPending,
                   androidEmulators, closedCount, stopCalls, lastEvent,
                   dispatched>>
    /\ UNCHANGED <<avdFailed>>
    /\ UNCHANGED <<pluginVars, menuVars>>

\* tracker.on('error'), any other message: throw err
TrackerErrorOther ==
    /\ watcher = "tracking" /\ evCount < MaxInputs
    /\ evCount' = evCount + 1
    /\ otherErrors' = otherErrors + 1
    /\ unhandled' = TRUE
    /\ UNCHANGED <<devices, pending, watcher, timers, adbUp, killQueued,
                   avdPending, androidEmulators, closedCount, stopCalls,
                   lastEvent, dispatched>>
    /\ UNCHANGED <<avdFailed>>
    /\ UNCHANGED <<pluginVars, menuVars>>

\* the timer set by the error handler fires: watchAndroidDevices()
WatchAndroidDevices ==
    /\ timers # <<>>
    /\ timers' = Tail(timers)
    /\ watcher' = "connecting"
    /\ avdPending' = avdPending + 1
    /\ UNCHANGED <<devices, pending, adbUp, killQueued, unhandled,
                   androidEmulators, evCount, closedCount, stopCalls,
                   lastEvent, dispatched>>
    /\ UNCHANGED <<otherErrors, avdFailed>>
    /\ UNCHANGED <<pluginVars, menuVars>>

\* getAdbClient() and client.trackDevices() resolve: the handlers are installed
TrackDevicesResolved ==
    /\ watcher = "connecting" /\ adbUp
    /\ watcher' = "tracking"
    /\ UNCHANGED <<devices, pending, timers, adbUp, killQueued, unhandled,
                   avdPending, androidEmulators, evCount, closedCount, stopCalls,
                   lastEvent, dispatched>>
    /\ UNCHANGED <<otherErrors, avdFailed>>
    /\ UNCHANGED <<pluginVars, menuVars>>

\* client.trackDevices() rejects: ECONNREFUSED is dropped, the rest rethrown
TrackDevicesRejected(code) ==
    /\ watcher = "connecting" /\ ~adbUp
    /\ watcher' = "idle"
    /\ unhandled' = (unhandled \/ code # "ECONNREFUSED")
    /\ UNCHANGED <<devices, pending, timers, adbUp, killQueued,
                   avdPending, androidEmulators, evCount, closedCount, stopCalls,
                   lastEvent, dispatched>>
    /\ UNCHANGED <<otherErrors, avdFailed>>
    /\ UNCHANGED <<pluginVars, menuVars>>

\* getAdbClient() rejects: console.error('Failed to watch for android devices')
GetAdbClientRejected ==
    /\ watcher = "connecting" /\ ~adbUp
    /\ watcher' = "idle"
    /\ UNCHANGED <<devices, pending, timers, adbUp, killQueued, unhandled,
                   avdPending, androidEmulators, evCount, closedCount, stopCalls,
                   lastEvent, dispatched>>
    /\ UNCHANGED <<otherErrors, avdFailed>>
    /\ UNCHANGED <<pluginVars, menuVars>>

\* callback of `emulator -list-avds`
ListAvdsDone(error, data) ==
    /\ avdPending > 0 /\ evCount < MaxInputs
    /\ evCount' = evCount + 1
    /\ avdPending' = avdPending - 1
    /\ androidEmulators' = IF error THEN androidEmulators ELSE data
    /\ avdFailed' = error
    /\ UNCHANGED <<devices, pending, watcher, timers, adbUp, killQueued,
                   unhandled, closedCount, stopCalls, lastEvent, dispatched>>
    /\ UNCHANGED <<otherErrors>>
    /\ UNCHANGED <<pluginVars, menuVars>>

\* registerDevice after its await: the dispatches for pending registration p
RegisterDeviceResume(p, name) ==
    /\ devices' = RegisterDeviceDispatch(devices, AndroidDevice(p.id, p.type, name))
    /\ pending' = pending \ {p}
    /\ dispatched' = [dispatched EXCEPT ![p.id] =
                          @ \cup {[ev |-> p.ev, kind |-> "register",
                                   hadArchived |-> \E i \in DOMAIN devices :
                                       /\ devices[i].serial = p.id
                                       /\ devices[i].isArchived]}]

\* adbClient.getProperties(device.id) resolves
GetPropertiesResolved(p) ==
    /\ p \in pending /\ p.stage = "props" /\ adbUp
    /\ IF p.type = "emulator"
       THEN /\ pending' = (pending \ {p}) \cup {[p EXCEPT !.stage = "name"]}
            /\ UNCHANGED <<devices, dispatched>>
       ELSE RegisterDeviceResume(p, "model")
    /\ UNCHANGED <<watcher, timers, adbUp, killQueued, unhandled, avdPending,
                   androidEmulators, evCount, closedCount, stopCalls, lastEvent>>
    /\ UNCHANGED <<otherErrors, avdFailed>>
    /\ UNCHANGED <<pluginVars, menuVars>>

\* adbClient.getProperties(device.id) rejects: createDevice never settles
GetPropertiesRejected(p) ==
    /\ p \in pending /\ p.stage = "props"
    /\ pending' = (pending \ {p}) \cup {[p EXCEPT !.stage = "hung"]}
    /\ unhandled' = TRUE
    /\ UNCHANGED <<devices, watcher, timers, adbUp, killQueued, avdPending,
                   androidEmulators, evCount, closedCount, stopCalls, lastEvent,
                   dispatched>>
    /\ UNCHANGED <<otherErrors, avdFailed>>
    /\ UNCHANGED <<pluginVars, menuVars>>

\* getRunningEmulatorName resolves with the AVD name or with null
EmulatorNameResolved(p, match) ==
    /\ p \in pending /\ p.stage = "name"
    /\ RegisterDeviceResume(p, IF match THEN "avd" ELSE "model")
    /\ UNCHANGED <<watcher, timers, adbUp, killQueued, unhandled, avdPending,
                   androidEmulators, evCount, closedCount, stopCalls, lastEvent>>
    /\ UNCHANGED <<otherErrors, avdFailed>>
    /\ UNCHANGED <<pluginVars, menuVars>>

\* getRunningEmulatorName rejects (no data): createDevice never settles
EmulatorNameRejected(p) ==
    /\ p \in pending /\ p.stage = "name"
    /\ pending' = (pending \ {p}) \cup {[p EXCEPT !.stage = "hung"]}
    /\ unhandled' = TRUE
    /\ UNCHANGED <<devices, watcher, timers, adbUp, killQueued, avdPending,
                   androidEmulators, evCount, closedCount, stopCalls, lastEvent,
                   dispatched>>
    /\ UNCHANGED <<otherErrors, avdFailed>>
    /\ UNCHANGED <<pluginVars, menuVars>>

\* the cleanup method is called: getAdbClient() is asked for the client
Cleanup ==
    /\ evCount < MaxInputs
    /\ evCount' = evCount + 1
    /\ stopCalls' = stopCalls + 1
    /\ killQueued' = killQueued + 1
    /\ UNCHANGED <<devices, pending, watcher, timers, adbUp, unhandled,
                   avdPending, androidEmulators, closedCount, lastEvent,
                   dispatched>>
    /\ UNCHANGED <<otherErrors, avdFailed>>
    /\ UNCHANGED <<pluginVars, menuVars>>

\* the cleanup method's continuation: client.kill() stops the adb server
ClientKill ==
    /\ killQueued > 0
    /\ killQueued' = killQueued - 1
    /\ adbUp' = FALSE
    /\ UNCHANGED <<devices, pending, watcher, timers, unhandled, avdPending,
                   androidEmulators, evCount, closedCount, stopCalls, lastEvent,
                   dispatched>>
    /\ UNCHANGED <<otherErrors, avdFailed>>
    /\ UNCHANGED <<pluginVars, menuVars>>

\* the environment: the adb server goes away or comes back
AdbServer(up) ==
    /\ adbUp # up
    /\ adbUp' = up
    /\ UNCHANGED <<devices, pending, watcher, timers, killQueued, unhandled,
                   avdPending, androidEmulators, evCount, closedCount, stopCalls,
                   lastEvent, dispatched>>
    /\ UNCHANGED <<otherErrors, avdFailed>>
    /\ UNCHANGED <<pluginVars, menuVars>>

TrackedDevices == [id : Ids, type : DeviceTypes]

(***************************************************************************)
(* The plugin admission pipeline (plugins dispatcher).                     *)
(***************************************************************************)
Undefined == "undefined"
Names == {"A", "B"}
GatekeeperKeys == {"gk_b"}
Outs == {"PluginA.js", "NotAPlugin.js", "missing.js"}

\* JavaScript truthiness of the values the model uses, and a || b
Falsy(v) == v \in {Undefined, ""}
OrElse(a, b) == IF Falsy(a) THEN b ELSE a

\* Object.keys(pluginDefinition), in the order of the manifest
Keys(def) ==
    <<"name">>
    \o (IF def.gatekeeper = Undefined THEN <<>> ELSE <<"gatekeeper">>)
    \o (IF def.out = Undefined THEN <<>> ELSE <<"out">>)
    \o (IF def.id = Undefined THEN <<>> ELSE <<"id">>)

\* PluginDefinition
PluginDefinitions ==
    [name : Names, gatekeeper : {Undefined} \cup GatekeeperKeys,
     out : Outs, id : {Undefined, "custom-id"}]

\* config(): it throws, or it returns an object whose disabledPlugins is a
\* Set (hasSet) or is not there
Configs ==
    {c \in [throws : BOOLEAN, hasSet : BOOLEAN, disabledPlugins : SUBSET Names] :
        (c.throws \/ ~c.hasSet) => (~c.hasSet /\ c.disabledPlugins = {})}

\* the static fields of the class before any backfill
FreshStatics == [id |-> Undefined, gatekeeper |-> Undefined, out |-> Undefined]

RECURSIVE SeqsUpTo(_, _)
SeqsUpTo(S, n) ==
    IF n = 0 THEN {<<>>}
    ELSE LET shorter == SeqsUpTo(S, n - 1)
         IN  shorter \cup {Append(q, x) : q \in shorter, x \in S}

(***************************************************************************)
(* The menu bar (MenuBar) and the subscriber of the plugins dispatcher.    *)
(***************************************************************************)
\* defaultKeyboardActions
DefaultKeyboardActions ==
    <<[action |-> "clear", label |-> "Clear", topLevelMenu |-> "View"],
      [action |-> "goToBottom", label |-> "Go To Bottom", topLevelMenu |-> "View"],
      [action |-> "createPaste", label |-> "Create Paste", topLevelMenu |-> "Edit"]>>

\* the entries of getTemplate's result that have a submenu
TemplateMenus == {"File", "Edit", "View", "Window", "Help"}

\* an entry of a class's keyboardActions: the name of a default action, or a
\* KeyboardAction object
DefaultAction(name) ==
    [isString |-> TRUE, action |-> name, label |-> Undefined,
     topLevelMenu |-> Undefined]
CustomAction(name, label, menu) ==
    [isString |-> FALSE, action |-> name, label |-> label, topLevelMenu |-> menu]

\* the plugin classes: static keyboardActions (if declared) and whether the
\* instances have an onKeyboardAction method
PluginClasses == {"P", "Q", "R"}
ClassOf(name) ==
    CASE name = "P" ->
           [declares |-> TRUE, hasHandler |-> TRUE,
            keyboardActions |-> <<DefaultAction("clear"), DefaultAction("createPaste")>>]
      [] name = "Q" ->
           [declares |-> TRUE, hasHandler |-> FALSE,
            keyboardActions |-> <<CustomAction("wipe", "Clear", "View"),
                                  DefaultAction("noSuchAction")>>]
      [] OTHER ->
           [declares |-> FALSE, hasHandler |-> TRUE, keyboardActions |-> <<>>]

\* plugin.keyboardActions || []
KeyboardActionsOrEmpty(name) ==
    IF ClassOf(name).declares THEN ClassOf(name).keyboardActions ELSE <<>>

\* typeof action === 'string' ? defaultKeyboardActions.find(...) : action
\* (the empty sequence stands for undefined)
ResolveAction(ka) ==
    IF ka.isString
    THEN LET hits == SelectSeq(DefaultKeyboardActions,
                               LAMBDA a : a.action = ka.action)
         IN  IF hits = <<>> THEN <<>> ELSE <<Head(hits)>>
    ELSE <<[action |-> ka.action, label |-> ka.label,
            topLevelMenu |-> ka.topLevelMenu]>>

\* registeredActions: the Set of the actions of all plugins, in insertion
\* order, without the undefined ones
RegisteredActions(plugins) ==
    LET declared == FoldLeft(LAMBDA acc, name : acc \o KeyboardActionsOrEmpty(name),
                             <<>>, plugins)
        resolved == FoldLeft(LAMBDA acc, ka : acc \o ResolveAction(ka),
                             <<>>, declared)
    IN  FoldLeft(LAMBDA acc, a : IF a \in Range(acc) THEN acc ELSE Append(acc, a),
                 <<>>, resolved)

\* appendMenuItem for every registered action: the items pushed to the
\* submenus of the template
AppendedMenuItems(actions) ==
    SelectSeq(actions, LAMBDA a : a.topLevelMenu \in TemplateMenus)

\* menu.submenu.items.find(menuItem => menuItem.label === label): the first
\* item of the top-level menu with that label (0: none)
FindMenuItem(items, topLevelMenu, label) ==
    LET hits == {i \in DOMAIN items :
                    items[i].topLevelMenu = topLevelMenu /\ items[i].label = label}
    IN  IF hits = {} THEN 0 ELSE CHOOSE i \in hits : \A j \in hits : i <= j

\* Map.prototype.set
MapSet(map, key, value) ==
    [k \in DOMAIN map \cup {key} |-> IF k = key THEN value ELSE map[k]]

\* the second loop of setupMenuBar: menuItems after it, for menu number gen
MenuItemsAfterSetup(map, items, actions, gen) ==
    FoldLeft(LAMBDA acc, a :
                 IF a.topLevelMenu \in TemplateMenus
                 THEN MapSet(acc, a.action,
                             [gen |-> gen,
                              idx |-> FindMenuItem(items, a.topLevelMenu, a.label)])
                 ELSE acc,
             map, actions)

\* the plugins slice: the identity of the object, and the values of its maps
PluginsStates(version) ==
    [version : {version},
     devicePlugins : {<<>>, <<"R">>},
     clientPlugins : {<<>>, <<"P">>, <<"Q">>, <<"P", "Q">>}]

NoValue == [action |-> Undefined, plugin |-> Undefined]

\* MenuBar is loaded and the dispatcher has not subscribed yet
MenuIdle ==
    /\ storePlugins = [version |-> 1, devicePlugins |-> <<>>, clientPlugins |-> <<>>]
    /\ state = 0
    /\ menuItems = <<>>
    /\ appMenu = <<>>
    /\ enabled = {}
    /\ pluginActionHandler = Undefined
    /\ active = Undefined
    /\ menuSteps = 0
    /\ lastOp = "none"
    /\ setupCount = 0
    /\ lastSetup = <<>>
    /\ deliveryCount = 0
    /\ lastDelivery = NoValue

\* a subscriber that rebuilds the menu bar at every notification
SubscriberSeesChangeAlways(seen, newState) == TRUE

\* the subscriber: state !== newState
SubscriberSeesChange(seen, newState) == seen # newState.version

\* a dispatch reaches the store: the plugins reducer returns a new object
\* (changed) or the one it had, and the subscriber of lines 294-307 runs
StoreNotification(changed, newPlugins) ==
    /\ menuSteps < MaxMenuSteps
    /\ menuSteps' = menuSteps + 1
    /\ lastOp' = "notify"
    /\ storePlugins' = IF changed THEN newPlugins ELSE storePlugins
    /\ state' = storePlugins'.version
    /\ IF SubscriberSeesChange(state, storePlugins')
       THEN LET plugins == storePlugins'.devicePlugins \o storePlugins'.clientPlugins
                actions == RegisteredActions(plugins)
                items == AppendedMenuItems(actions)
            IN  /\ setupCount' = setupCount + 1
                /\ lastSetup' = plugins
                /\ appMenu' = items
                /\ enabled' = {}
                /\ menuItems' = MenuItemsAfterSetup(menuItems, items, actions,
                                                    setupCount + 1)
       ELSE UNCHANGED <<setupCount, lastSetup, appMenu, enabled, menuItems>>
    /\ UNCHANGED <<pluginActionHandler, active, deliveryCount, lastDelivery>>
    /\ UNCHANGED <<watcherVars, pluginVars>>

\* the names of the actions in a class's keyboardActions
ActionNames(name) ==
    {KeyboardActionsOrEmpty(name)[i].action : i \in DOMAIN KeyboardActionsOrEmpty(name)}

\* the items of the application menu that menuItems holds
MappedItems(actions) ==
    {menuItems[a].idx : a \in {b \in actions \cap DOMAIN menuItems :
                                  menuItems[b].gen = setupCount /\ menuItems[b].idx > 0}}

\* activateMenuItems: if (activePlugin.onKeyboardAction) pluginActionHandler = ...
ActivatedHandler(handler, name) ==
    IF ClassOf(name).hasHandler THEN name ELSE handler

\* activateMenuItems: every item of menuItems is disabled, then the items
\* menuItems holds for the keyboardActions of the plugin's class are enabled
EnabledAfterActivate(old, name) ==
    (old \ MappedItems(DOMAIN menuItems)) \cup MappedItems(ActionNames(name))

\* activateMenuItems(activePlugin), activePlugin an instance of class name
ActivateMenuItems(name) ==
    /\ menuSteps < MaxMenuSteps
    /\ menuSteps' = menuSteps + 1
    /\ lastOp' = "activate"
    /\ active' = name
    /\ enabled' = EnabledAfterActivate(enabled, name)
    /\ pluginActionHandler' = ActivatedHandler(pluginActionHandler, name)
    /\ UNCHANGED <<storePlugins, state, menuItems, appMenu, setupCount,
                   lastSetup, deliveryCount, lastDelivery>>
    /\ UNCHANGED <<watcherVars, pluginVars>>

\* the user triggers an enabled item: click -> actionHandler(action)
MenuClick(idx) ==
    /\ menuSteps < MaxMenuSteps
    /\ idx \in enabled
    /\ menuSteps' = menuSteps + 1
    /\ lastOp' = "click"
    /\ IF pluginActionHandler # Undefined
       THEN /\ deliveryCount' = deliveryCount + 1
            /\ lastDelivery' = [action |-> appMenu[idx].action,
                                plugin |-> pluginActionHandler]
       ELSE UNCHANGED <<deliveryCount, lastDelivery>>
    /\ UNCHANGED <<storePlugins, state, menuItems, appMenu, enabled,
                   pluginActionHandler, active, setupCount, lastSetup>>
    /\ UNCHANGED <<watcherVars, pluginVars>>

\* process.env.PLUGINS: not set, not JSON, JSON that is no array (an object, a
\* number, null), or the JSON text of an array of descriptors
EnvPlugins(lists) ==
    {[kind |-> k, value |-> <<>>] : k \in {"absent", "malformed", "object"}}
    \cup {[kind |-> "array", value |-> q] : q \in lists}

NoPartitions ==
    [initialPlugins |-> <<>>, disabledPlugins |-> <<>>,
     gatekeepedPlugins |-> <<>>, failedPlugins |-> <<>>]

\* the dispatcher has not run: the buckets are the empty arrays of lines 277-279
PluginIdle ==
    /\ descriptors = <<>>
    /\ pc = "load"
    /\ passing = <<>>
    /\ disabledPlugins = <<>>
    /\ gatekeepedPlugins = <<>>
    /\ failedPlugins = <<>>
    /\ initialPlugins = <<>>
    /\ gkCalls = <<>>
    /\ run = 1
    /\ firstRun = NoPartitions

\* a development build: no bundled plugins, the descriptors come from PLUGINS
PluginInit ==
    /\ WatcherInit /\ adbUp
    /\ isProduction = FALSE
    /\ indexJson = [throws |-> FALSE, plugins |-> <<>>]
    /\ envPLUGINS \in {e \in EnvPlugins(SeqsUpTo(PluginDefinitions, MaxPlugins)) :
                          e.kind = "array"}
    /\ config \in Configs
    /\ gkActive \in SUBSET GatekeeperKeys
    /\ statics = FreshStatics
    /\ PluginIdle
    /\ MenuIdle

\* descriptors as index.json and PLUGINS may hold them: `out` may be missing
LoadDefinitions ==
    [name : Names, gatekeeper : {Undefined}, out : Outs \cup {Undefined},
     id : {Undefined, "custom-id"}]

\* the class exported by PluginA.js declares no id, the id '', or an id
DeclaredStatics ==
    {[FreshStatics EXCEPT !.id = v] : v \in {Undefined, "", "own-id"}}

\* a production build: bundled descriptors from index.json, and PLUGINS
LoadInit ==
    /\ WatcherInit /\ adbUp
    /\ isProduction = TRUE
    /\ indexJson \in {[throws |-> TRUE, plugins |-> <<>>]}
           \cup {[throws |-> FALSE, plugins |-> q] :
                     q \in SeqsUpTo(LoadDefinitions, MaxPlugins)}
    /\ envPLUGINS \in
           EnvPlugins(SeqsUpTo(LoadDefinitions, MaxPlugins - Len(indexJson.plugins)))
    /\ config = [throws |-> FALSE, hasSet |-> TRUE, disabledPlugins |-> {"B"}]
    /\ gkActive = {}
    /\ statics \in DeclaredStatics
    /\ PluginIdle
    /\ MenuIdle

BundledPluginPath == "defaultPlugins"

\* path.join(pluginPath, out) for the one-segment paths of the model
PathJoin(dir, out) == dir \o "/" \o out

\* getBundledPlugins(): path.join throws a TypeError for a descriptor without
\* `out`, after the try block
GetBundledPlugins ==
    LET bundledPlugins == IF indexJson.throws THEN <<>> ELSE indexJson.plugins
    IN  IF ~isProduction THEN [throws |-> FALSE, value |-> <<>>]
        ELSE IF \E i \in DOMAIN bundledPlugins : bundledPlugins[i].out = Undefined
        THEN [throws |-> TRUE, value |-> <<>>]
        ELSE [throws |-> FALSE,
              value |-> [i \in DOMAIN bundledPlugins |->
                           [bundledPlugins[i] EXCEPT
                               !.out = PathJoin(BundledPluginPath, @)]]]

\* JSON.parse(process.env.PLUGINS || '[]')
JsonParse(env) ==
    CASE env.kind = "absent"    -> [throws |-> FALSE, iterable |-> TRUE, value |-> <<>>]
      [] env.kind = "malformed" -> [throws |-> TRUE, iterable |-> FALSE, value |-> <<>>]
      [] env.kind = "object"    -> [throws |-> FALSE, iterable |-> FALSE, value |-> <<>>]
      [] env.kind = "array"     -> [throws |-> FALSE, iterable |-> TRUE, value |-> env.value]

\* getDynamicPlugins(): the parsed value, or [] when JSON.parse throws
GetDynamicPlugins ==
    LET parsed == JsonParse(envPLUGINS)
    IN  IF parsed.throws THEN [iterable |-> TRUE, value |-> <<>>]
        ELSE [iterable |-> parsed.iterable, value |-> parsed.value]

\* [...getBundledPlugins(), ...getDynamicPlugins()]: an exception of
\* getBundledPlugins or of the spread leaves the dispatcher
GetPlugins ==
    /\ pc = "load"
    /\ IF GetBundledPlugins.throws \/ ~GetDynamicPlugins.iterable
       THEN pc' = "crashed" /\ UNCHANGED descriptors
       ELSE /\ descriptors' = GetBundledPlugins.value \o GetDynamicPlugins.value
            /\ pc' = "checkDisabled"
    /\ UNCHANGED <<sourceVars, config, gkActive, statics, passing,
                   disabledPlugins, gatekeepedPlugins, failedPlugins,
                   initialPlugins, gkCalls, run, firstRun>>
    /\ UNCHANGED <<watcherVars, menuVars>>

\* checkDisabled: config().disabledPlugins, or the empty set when config() throws
DisabledList == IF config.throws THEN {} ELSE config.disabledPlugins

\* checkDisabled: disabledList.has is called on something that is not a Set
DisabledListHasThrows == ~config.throws /\ ~config.hasSet

\* a checkDisabled that records the plugin and lets it through all the same
CheckDisabledLetsThrough(plugin) == TRUE

\* checkDisabled(disabledPlugins)(plugin): its return value
CheckDisabled(plugin) == ~(plugin.name \in DisabledList)

\* checkDisabled(disabledPlugins)(plugin): whether it pushes the plugin
CheckDisabledPushes(plugin) == plugin.name \in DisabledList

\* GK.get(key)
GKGet(key) == key \in gkActive

\* a checkGK that never asks the gatekeeper service
CheckGKAdmitsAll(plugin) == TRUE

\* checkGK(gatekeepedPlugins)(plugin): its return value
CheckGK(plugin) == IF Falsy(plugin.gatekeeper) THEN TRUE ELSE GKGet(plugin.gatekeeper)

\* checkGK(gatekeepedPlugins)(plugin): whether it calls GK.get
CheckGKConsults(plugin) == ~Falsy(plugin.gatekeeper)

\* reqFn(pluginDefinition.out): what the module at `out` exports
ReqFn(out) ==
    CASE out \in {"PluginA.js", PathJoin(BundledPluginPath, "PluginA.js")}
              -> [throws |-> FALSE, isPlugin |-> TRUE]
      [] out \in {"NotAPlugin.js", PathJoin(BundledPluginPath, "NotAPlugin.js")}
              -> [throws |-> FALSE, isPlugin |-> FALSE]
      [] OTHER -> [throws |-> TRUE, isPlugin |-> FALSE]

\* a loop that rejects a class whose id an earlier load has set
BackfillRejectsLoadedClass(acc, key, def) ==
    IF acc.thrown THEN acc
    ELSE IF key = "name"
         THEN IF acc.statics.id = Undefined
              THEN [acc EXCEPT !.statics.id = def.name]
              ELSE [acc EXCEPT !.thrown = TRUE]
    ELSE IF key = "id"
         THEN [acc EXCEPT !.thrown = TRUE]
    ELSE [acc EXCEPT !.statics[key] = OrElse(@, def[key])]

\* a loop that treats the key `id` like any other key
BackfillAcceptsId(acc, key, def) ==
    IF key = "name"
    THEN [acc EXCEPT !.statics.id = OrElse(@, def.name)]
    ELSE [acc EXCEPT !.statics[key] = OrElse(@, def[key])]

\* requirePlugin, the loop over Object.keys(pluginDefinition): one key
Backfill(acc, key, def) ==
    IF acc.thrown THEN acc
    ELSE IF key = "name"
         THEN [acc EXCEPT !.statics.id = OrElse(@, def.name)]
    ELSE IF key = "id"
         THEN [acc EXCEPT !.thrown = TRUE]
    ELSE [acc EXCEPT !.statics[key] = OrElse(@, def[key])]

\* requirePlugin(failedPlugins, reqFn)(pluginDefinition)
RequirePlugin(st, def) ==
    LET module == ReqFn(def.out)
        step(acc, key) == Backfill(acc, key, def)
        filled == FoldLeft(step, [statics |-> st, thrown |-> FALSE], Keys(def))
    IN  IF module.throws
        THEN [ok |-> FALSE, statics |-> st, message |-> "Cannot find module"]
        ELSE IF ~module.isPlugin
        THEN [ok |-> FALSE, statics |-> st, message |-> "is not a FlipperBasePlugin"]
        ELSE IF filled.thrown
        THEN [ok |-> FALSE, statics |-> filled.statics,
              message |-> "Field id not allowed in package.json"]
        ELSE [ok |-> TRUE, statics |-> filled.statics, message |-> ""]

\* indices i of seq (in order) whose descriptor satisfies Test
Keep(seq, Test(_)) == SelectSeq(seq, LAMBDA i : Test(descriptors[i]))

\* .filter(checkDisabled(disabledPlugins)) over the whole concatenated list
FilterDisabled ==
    /\ pc = "checkDisabled"
    /\ IF DisabledListHasThrows /\ descriptors # <<>>
       THEN pc' = "crashed" /\ UNCHANGED <<disabledPlugins, passing>>
       ELSE LET all == [i \in 1..Len(descriptors) |-> i]
            IN  /\ disabledPlugins' =
                       disabledPlugins \o Keep(all, CheckDisabledPushes)
                /\ passing' = Keep(all, CheckDisabled)
                /\ pc' = "checkGK"
    /\ UNCHANGED <<sourceVars, descriptors, config, gkActive, statics,
                   gatekeepedPlugins, failedPlugins, initialPlugins, gkCalls,
                   run, firstRun>>
    /\ UNCHANGED <<watcherVars, menuVars>>

\* .filter(checkGK(gatekeepedPlugins)) over what the disable check let through
FilterGK ==
    /\ pc = "checkGK"
    /\ gkCalls' = gkCalls \o Keep(passing, CheckGKConsults)
    /\ gatekeepedPlugins' =
           gatekeepedPlugins \o Keep(passing, LAMBDA plugin : ~CheckGK(plugin))
    /\ passing' = Keep(passing, CheckGK)
    /\ pc' = "require"
    /\ UNCHANGED <<sourceVars, descriptors, config, gkActive, statics,
                   disabledPlugins, failedPlugins, initialPlugins, run, firstRun>>
    /\ UNCHANGED <<watcherVars, menuVars>>

\* a requirePlugin whose catch returns null without recording the failure
RequireStepDropsFailure(acc, i) ==
    LET r == RequirePlugin(acc.statics, descriptors[i])
    IN  IF r.ok
        THEN [statics |-> r.statics, failed |-> acc.failed,
              loaded |-> Append(acc.loaded, [def |-> i, plugin |-> descriptors[i].out])]
        ELSE [statics |-> r.statics, loaded |-> acc.loaded, failed |-> acc.failed]

\* .map(requirePlugin(failedPlugins)).filter(Boolean)
RequireStep(acc, i) ==
    LET r == RequirePlugin(acc.statics, descriptors[i])
    IN  IF r.ok
        THEN [statics |-> r.statics, failed |-> acc.failed,
              loaded |-> Append(acc.loaded, [def |-> i, plugin |-> descriptors[i].out])]
        ELSE [statics |-> r.statics, loaded |-> acc.loaded,
              failed |-> Append(acc.failed, [def |-> i, message |-> r.message])]

MapRequire ==
    /\ pc = "require"
    /\ LET r == FoldLeft(RequireStep,
                         [statics |-> statics, failed |-> failedPlugins,
                          loaded |-> <<>>], passing)
       IN  /\ statics' = r.statics
           /\ failedPlugins' = r.failed
           /\ initialPlugins' = r.loaded
    /\ passing' = <<>>
    /\ pc' = "dispatch"
    /\ UNCHANGED <<sourceVars, descriptors, config, gkActive, disabledPlugins,
                   gatekeepedPlugins, gkCalls, run, firstRun>>
    /\ UNCHANGED <<watcherVars, menuVars>>

\* the four store.dispatch calls of lines 289-292
DispatchPlugins ==
    /\ pc = "dispatch"
    /\ pc' = "done"
    /\ UNCHANGED <<sourceVars, descriptors, config, gkActive, statics, passing,
                   disabledPlugins, gatekeepedPlugins, failedPlugins,
                   initialPlugins, gkCalls, run, firstRun>>
    /\ UNCHANGED <<watcherVars, menuVars>>

\* the four arrays handed to the store
Partitions ==
    [initialPlugins |-> initialPlugins, disabledPlugins |-> disabledPlugins,
     gatekeepedPlugins |-> gatekeepedPlugins, failedPlugins |-> failedPlugins]

\* the default export is called a second time in the same process: fresh
\* arrays (lines 277-279), the same inputs, and the modules reqFn has cached
Rerun ==
    /\ pc = "done" /\ run = 1
    /\ run' = 2
    /\ firstRun' = Partitions
    /\ pc' = "load"
    /\ descriptors' = <<>>
    /\ passing' = <<>>
    /\ disabledPlugins' = <<>>
    /\ gatekeepedPlugins' = <<>>
    /\ failedPlugins' = <<>>
    /\ initialPlugins' = <<>>
    /\ gkCalls' = <<>>
    /\ UNCHANGED <<sourceVars, config, gkActive, statics>>
    /\ UNCHANGED <<watcherVars, menuVars>>

PluginNext ==
    \/ GetPlugins
    \/ FilterDisabled
    \/ FilterGK
    \/ MapRequire
    \/ DispatchPlugins
    \/ Rerun

PluginSpec == PluginInit /\ [][PluginNext]_vars

LoadSpec == LoadInit /\ [][PluginNext]_vars

Init ==
    /\ WatcherInit
    /\ isProduction = FALSE
    /\ indexJson = [throws |-> FALSE, plugins |-> <<>>]
    /\ envPLUGINS = [kind |-> "absent", value |-> <<>>]
    /\ config = [throws |-> FALSE, hasSet |-> TRUE, disabledPlugins |-> {}]
    /\ gkActive = {}
    /\ statics = FreshStatics
    /\ PluginIdle
    /\ MenuIdle

\* the dispatcher has run and subscribes: the store holds the plugins it
\* registered
MenuInit ==
    /\ WatcherInit /\ adbUp
    /\ isProduction = FALSE
    /\ indexJson = [throws |-> FALSE, plugins |-> <<>>]
    /\ envPLUGINS = [kind |-> "absent", value |-> <<>>]
    /\ config = [throws |-> FALSE, hasSet |-> TRUE, disabledPlugins |-> {}]
    /\ gkActive = {}
    /\ statics = FreshStatics
    /\ descriptors = <<>>
    /\ pc = "done"
    /\ passing = <<>>
    /\ disabledPlugins = <<>>
    /\ gatekeepedPlugins = <<>>
    /\ failedPlugins = <<>>
    /\ initialPlugins = <<>>
    /\ gkCalls = <<>>
    /\ run = 2
    /\ firstRun = NoPartitions
    /\ storePlugins \in PluginsStates(1)
    /\ state = 0
    /\ menuItems = <<>>
    /\ appMenu = <<>>
    /\ enabled = {}
    /\ pluginActionHandler = Undefined
    /\ active = Undefined
    /\ menuSteps = 0
    /\ lastOp = "none"
    /\ setupCount = 0
    /\ lastSetup = <<>>
    /\ deliveryCount = 0
    /\ lastDelivery = NoValue

MenuNext ==
    \/ \E changed \in BOOLEAN, newPlugins \in PluginsStates(storePlugins.version + 1) :
           StoreNotification(changed, newPlugins)
    \/ \E name \in PluginClasses : ActivateMenuItems(name)
    \/ \E idx \in DOMAIN appMenu : MenuClick(idx)

MenuSpec == MenuInit /\ [][MenuNext]_vars

Next ==
    \/ \E device \in TrackedDevices : TrackerAdd(device)
    \/ \E device \in TrackedDevices : TrackerChange(device)
    \/ \E device \in TrackedDevices : TrackerRemove(device)
    \/ TrackerErrorClosed
    \/ TrackerErrorOther
    \/ WatchAndroidDevices
    \/ TrackDevicesResolved
    \/ \E code \in {"ECONNREFUSED", "EOTHER"} : TrackDevicesRejected(code)
    \/ GetAdbClientRejected
    \/ \E error \in BOOLEAN, data \in AvdLists : ListAvdsDone(error, data)
    \/ \E p \in pending : GetPropertiesResolved(p)
    \/ \E p \in pending : GetPropertiesRejected(p)
    \/ \E p \in pending, match \in BOOLEAN : EmulatorNameResolved(p, match)
    \/ \E p \in pending : EmulatorNameRejected(p)
    \/ Cleanup
    \/ ClientKill
    \/ \E up \in BOOLEAN : AdbServer(up)

Spec == Init /\ [][Next]_vars

\* The event loop runs a due timer and a settled promise's continuation.
FairSpec ==
    /\ Init /\ [][Next]_vars
    /\ WF_vars(WatchAndroidDevices)
    /\ WF_vars(TrackDevicesResolved)

(***************************************************************************)
(* Properties of the device watcher.                                       *)
(***************************************************************************)
LiveEntries(d) ==
    {i \in DOMAIN devices : devices[i].serial = d /\ ~devices[i].isArchived}
ArchivedEntries(d) ==
    {i \in DOMAIN devices : devices[i].serial = d /\ devices[i].isArchived}
HasLive(d) == LiveEntries(d) # {}
HasArchived(d) == ArchivedEntries(d) # {}

\* no registerDevice call for d is still awaiting createDevice
Quiescent(d) == \A p \in pending : p.id # d

\* the registrations whose dispatches happen in this step
Resumed == {p \in pending : \A q \in pending' : q.ev # p.ev}

Registrations(d) == {r \in dispatched[d] : r.kind = "register"}

\* C1: after a sequence of add/change/remove events for an id (no tracker
\* error), once every registration started for the id has completed, the id
\* has no live entry if its last event was remove or change-to-offline, and
\* has a live entry if its last event was add/change with a non-offline type.
C1_FinalStateMatchesLastEvent ==
    \A d \in Ids :
        (closedCount = 0 /\ Quiescent(d)) =>
            /\ (lastEvent[d] = "gone" => ~HasLive(d))
            /\ (lastEvent[d] = "live" => HasLive(d))

C3_ArchivedEntryRetained ==
    [][\A d \in Ids : HasArchived(d) => (HasArchived(d)' \/ HasLive(d)')]_vars

\* C7: the step that handles a 'Connection closed' error leaves no live
\* Android entry and schedules exactly one restart after the fixed delay, and
\* no registration started before that error dispatches after it.
C7_ConnectionClosedArchivesAll ==
    [][/\ (closedCount' = closedCount + 1) =>
            /\ \A i \in DOMAIN devices' :
                  IsAndroidDevice(devices'[i]) => devices'[i].isArchived
            /\ timers' = Append(timers, RestartDelay)
       /\ \A p \in Resumed : p.closed = closedCount]_vars

\* C8: after a 'Connection closed' error, if the adb server is eventually
\* reachable for good, the watcher eventually tracks devices again.
C8_WatcherRestarts ==
    [](closedCount > 0 => (<>[]adbUp => <>(watcher = "tracking")))

\* C9: the dispatches caused by tracker events for one id reach the store in
\* the arrival order of those events.
C9_ArrivalOrderPreserved ==
    [][\A d \in Ids : \A r \in dispatched'[d] \ dispatched[d] :
          \A earlier \in dispatched[d] : earlier.ev < r.ev]_vars

\* C10: no registration that was awaiting createDevice when the cleanup method
\* was called dispatches REGISTER_DEVICE afterwards.
C10_NoUpsertAfterStop ==
    [][\A p \in Resumed : p.stops = stopCalls]_vars

\* C11: once the cleanup method has been called, a further call changes
\* neither the registry nor the watcher; and once its client.kill() has run,
\* no restart of the watcher is scheduled and watchAndroidDevices does not run
\* again.
C11_StopIsFinal ==
    [][/\ (stopCalls > 0 /\ stopCalls' = stopCalls + 1) =>
              devices' = devices /\ watcher' = watcher /\ timers' = timers
       /\ (stopCalls > 0 /\ killQueued < stopCalls) =>
              /\ Len(timers') <= Len(timers)
              /\ (watcher' = "connecting" => watcher = "connecting")]_vars

\* C12: the step that handles a tracker error other than 'Connection closed'
\* throws the error, archives and unregisters no device, and schedules no
\* restart.
C12_OtherErrorIsFatal ==
    [][otherErrors' = otherErrors + 1 =>
          /\ unhandled'
          /\ devices' = devices
          /\ dispatched' = dispatched
          /\ timers' = timers
          /\ watcher' = watcher]_vars

\* C12 witness: such an error has been handled while an Android device was
\* live, and the device is still live with no restart scheduled.
C12_Witness ==
    /\ otherErrors > 0
    /\ closedCount = 0
    /\ unhandled
    /\ timers = <<>>
    /\ \E i \in DOMAIN devices :
          IsAndroidDevice(devices[i]) /\ ~devices[i].isArchived

\* C13: when the name probe of an emulator ends, with a name, without one or
\* with a failure, registerDevice dispatches REGISTER_DEVICE for the id, and
\* the entry is named by the AVD name or else by ro.product.model.
C13_NameFailureDoesNotBlock ==
    [][\A p \in pending :
          (p.stage = "name" /\ p \notin pending') =>
              /\ p \in Resumed
              /\ \E i \in DOMAIN devices' :
                    /\ devices'[i].serial = p.id
                    /\ ~devices'[i].isArchived
                    /\ devices'[i].title \in {"avd", "model"}]_vars

\* C20: the step in which `emulator -list-avds` ends with a failure leaves the
\* empty list of installable emulators, and changes nothing of the device
\* tracking that watchAndroidDevices started with it.
C20_FailedEnumerationYieldsEmptyList ==
    [][(avdPending' = avdPending - 1 /\ avdFailed') =>
          /\ androidEmulators' = <<>>
          /\ watcher' = watcher
          /\ timers' = timers]_vars

\* the archived handles the registry holds for id d
ArchivedHandles(d) == {devices[i] : i \in ArchivedEntries(d)}

\* C21: the step that handles a remove event, or a change event with type
\* offline, for an id that has no entry in the registry leaves the registry as
\* it is.
C21_AbsentRemoveIsNoOp ==
    [][\A d \in Ids :
          (/\ \E r \in dispatched'[d] \ dispatched[d] : r.kind = "unregister"
           /\ ~HasLive(d) /\ ~HasArchived(d)) => devices' = devices]_vars

\* C21 witness: an unregistration has been handled for an id that has never
\* been registered, while the registry holds another device.
C21_Witness ==
    \E d \in Ids :
        /\ dispatched[d] # {}
        /\ Registrations(d) = {}
        /\ Quiescent(d)
        /\ ~HasLive(d) /\ ~HasArchived(d)
        /\ devices # <<>>

\* C22: the step in which registerDevice dispatches for id d leaves no
\* archived entry with id d, and leaves the archived entries of every other id
\* as they were.
C22_RegistrationSupersedesArchived ==
    [][\A p \in Resumed :
          /\ ~HasArchived(p.id)'
          /\ \A e \in Ids \ {p.id} : ArchivedHandles(e)' = ArchivedHandles(e)]_vars

\* C22 witness: a registration has dispatched for an id that had an archived
\* entry, and the id is live with no archived entry left.
C22_Witness ==
    \E d \in Ids :
        /\ \E r \in Registrations(d) : r.hadArchived
        /\ HasLive(d)
        /\ ~HasArchived(d)

(***************************************************************************)
(* Properties of the plugin admission pipeline.                            *)
(***************************************************************************)
Occurrences(seq, i) == Cardinality({k \in DOMAIN seq : seq[k] = i})
Defs(seq) == [k \in DOMAIN seq |-> seq[k].def]

\* the disable check and the gatekeeper check, read off the inputs
NameDisabled(def) == ~config.throws /\ def.name \in config.disabledPlugins
Gatekept(def) == def.gatekeeper \in GatekeeperKeys \ gkActive

\* C4: when the dispatcher is done, every descriptor of the concatenated list
\* is in exactly one of initialPlugins, disabledPlugins, gatekeepedPlugins and
\* failedPlugins, exactly once.
C4_ExactlyOneOutcome ==
    pc = "done" =>
        \A i \in DOMAIN descriptors :
            Occurrences(Defs(initialPlugins), i) + Occurrences(disabledPlugins, i)
            + Occurrences(gatekeepedPlugins, i)
            + Occurrences(Defs(failedPlugins), i) = 1

\* C4 witness: a finished run over a full list with a disabled, and either an
\* admitted and a failed, or a gatekept descriptor.
C4_Witness ==
    /\ pc = "done"
    /\ Len(descriptors) >= 2
    /\ disabledPlugins # <<>>
    /\ gatekeepedPlugins # <<>>

\* C5: a descriptor whose name is disabled and whose gatekeeper key is
\* inactive is in disabledPlugins only, and GK.get is not called for it.
C5_DisabledBeforeGatekeeper ==
    pc \in {"require", "dispatch", "done"} =>
        \A i \in DOMAIN descriptors :
            (NameDisabled(descriptors[i]) /\ Gatekept(descriptors[i])) =>
                /\ Occurrences(disabledPlugins, i) = 1
                /\ Occurrences(gatekeepedPlugins, i) = 0
                /\ Occurrences(gkCalls, i) = 0

\* C5 witness: the gatekeeper pass has run over a list holding a descriptor
\* that is both disabled and gatekept, and one that is gatekept only.
C5_Witness ==
    /\ pc = "done"
    /\ \E i \in DOMAIN descriptors :
          NameDisabled(descriptors[i]) /\ Gatekept(descriptors[i])
    /\ gatekeepedPlugins # <<>>

\* C6 as claimed: a descriptor that sets `id` is always in failedPlugins and
\* never in initialPlugins, whatever the disabled set and gatekeeper state.
C6_IdAlwaysFailed ==
    pc = "done" =>
        \A i \in DOMAIN descriptors :
            descriptors[i].id # Undefined =>
                /\ Occurrences(Defs(failedPlugins), i) = 1
                /\ Occurrences(Defs(initialPlugins), i) = 0

\* C6 amended: a descriptor that sets `id` is never in initialPlugins, and it
\* is in failedPlugins exactly when neither its name is disabled nor its
\* gatekeeper key inactive.
C6_IdNeverAdmitted ==
    pc = "done" =>
        \A i \in DOMAIN descriptors :
            descriptors[i].id # Undefined =>
                /\ Occurrences(Defs(initialPlugins), i) = 0
                /\ Occurrences(Defs(failedPlugins), i) =
                      (IF NameDisabled(descriptors[i]) \/ Gatekept(descriptors[i])
                       THEN 0 ELSE 1)

\* C6 witness: a descriptor with `id` whose module is a plugin, that passed
\* both checks, has been rejected by the loop over its keys.
C6_Witness ==
    /\ pc = "done"
    /\ \E k \in DOMAIN failedPlugins :
          /\ descriptors[failedPlugins[k].def].id # Undefined
          /\ descriptors[failedPlugins[k].def].out = "PluginA.js"
          /\ descriptors[failedPlugins[k].def].gatekeeper # Undefined
          /\ failedPlugins[k].message = "Field id not allowed in package.json"

\* the arrays that hold descriptor i when the dispatcher is done
Outcomes(i) ==
    {o \in {"Admitted", "Disabled", "Gatekept", "Failed"} :
        \/ o = "Admitted" /\ Occurrences(Defs(initialPlugins), i) > 0
        \/ o = "Disabled" /\ Occurrences(disabledPlugins, i) > 0
        \/ o = "Gatekept" /\ Occurrences(gatekeepedPlugins, i) > 0
        \/ o = "Failed" /\ Occurrences(Defs(failedPlugins), i) > 0}

\* the reference classification of one descriptor, read off the inputs
Classify(def) ==
    IF NameDisabled(def) THEN "Disabled"
    ELSE IF Gatekept(def) THEN "Gatekept"
    ELSE IF \/ ReqFn(def.out).throws
            \/ ~ReqFn(def.out).isPlugin
            \/ def.id # Undefined
         THEN "Failed"
    ELSE "Admitted"

\* C14: with descriptors whose module is missing, whose export is no plugin,
\* whose `out` is missing or which carry an `id`, in index.json or in PLUGINS,
\* no exception leaves the dispatcher, and when it is done every descriptor
\* has the outcome it has on its own.
C14_BadPluginNeverAborts ==
    envPLUGINS.kind # "object" =>
        /\ pc # "crashed"
        /\ pc = "done" =>
              \A i \in DOMAIN descriptors :
                  Outcomes(i) = {Classify(descriptors[i])}

\* C15: a step of the load stage in which every load succeeds leaves every
\* static field the class had declared, the empty string included, as it was.
C15_BackfillKeepsDeclared ==
    [][(pc = "require" /\ initialPlugins' # <<>> /\ failedPlugins' = failedPlugins) =>
          \A f \in DOMAIN statics :
              statics[f] # Undefined => statics'[f] = statics[f]]_vars

\* C16: when the dispatcher is done, every descriptor is in exactly the array
\* of its reference classification: Disabled, else Gatekept, else Failed, else
\* Admitted.
C16_OutcomeIsReference ==
    pc = "done" =>
        \A i \in DOMAIN descriptors :
            Outcomes(i) = {Classify(descriptors[i])}

\* C16 witness: a finished run over two descriptors, one admitted and one
\* gatekept.
C16_Witness ==
    /\ pc = "done"
    /\ Len(descriptors) = 2
    /\ \E i, j \in DOMAIN descriptors :
          Outcomes(i) = {"Admitted"} /\ Outcomes(j) = {"Gatekept"}

\* C17: a second run of the dispatcher on the same inputs ends with the same
\* four arrays as the first run, also when it loads a class whose static
\* fields the first run has backfilled.
C17_SecondRunSamePartitions ==
    (run = 2 /\ pc = "done") => Partitions = firstRun

\* C17 witness: the second run is done, it admitted a plugin, failed another,
\* and the class had been backfilled by the first run.
C17_Witness ==
    /\ run = 2 /\ pc = "done"
    /\ initialPlugins # <<>>
    /\ failedPlugins # <<>>
    /\ firstRun.initialPlugins # <<>>
    /\ statics.id # Undefined

\* C18: when PLUGINS is not set, is not JSON, or is JSON that is no array, no
\* exception leaves the dispatcher and the list it works on is the bundled
\* descriptors alone.
C18_MalformedEnvYieldsEmptyList ==
    (envPLUGINS.kind # "array" /\ ~GetBundledPlugins.throws) =>
        /\ pc # "crashed"
        /\ pc # "load" => descriptors = GetBundledPlugins.value

\* C19: when config() throws or returns no Set of disabled names, no
\* exception leaves the dispatcher, no descriptor is put into disabledPlugins
\* and the disable check passes every descriptor on to the gatekeeper check.
C19_MalformedConfigDisablesNothing ==
    (config.throws \/ ~config.hasSet) =>
        /\ pc # "crashed"
        /\ disabledPlugins = <<>>
        /\ pc = "checkGK" => passing = [i \in 1..Len(descriptors) |-> i]

(***************************************************************************)
(* Properties of the menu bar.                                             *)
(***************************************************************************)
\* the step is a store notification
NotifyStep == menuSteps' = menuSteps + 1 /\ lastOp' = "notify"

\* the step is a call of activateMenuItems
ActivateStep == menuSteps' = menuSteps + 1 /\ lastOp' = "activate"

\* the step is a click on an enabled menu item
ClickStep == menuSteps' = menuSteps + 1 /\ lastOp' = "click"

\* C25: at every store notification setupMenuBar is called if and only if
\* the plugins object is not the one of the previous notification (the first
\* notification counts as a change), and it is called with the device
\* plugins followed by the client plugins.
C25_RebuildExactlyOnChange ==
    [][NotifyStep =>
          /\ setupCount' \in {setupCount, setupCount + 1}
          /\ (setupCount' = setupCount + 1)
                <=> (state = 0 \/ storePlugins'.version # storePlugins.version)
          /\ setupCount' = setupCount + 1
                => lastSetup' = storePlugins'.devicePlugins
                                  \o storePlugins'.clientPlugins]_vars

\* three notifications, the plugins object changed at one of the later two:
\* two rebuilds, the last with a device plugin and two client plugins
C25_Witness ==
    /\ menuSteps = 3 /\ active = Undefined /\ lastOp = "notify"
    /\ setupCount = 2 /\ storePlugins.version = 2
    /\ lastSetup = <<"R", "P", "Q">>


\* C24: an action triggered from the menu is delivered only to the handler
\* of the plugin activated last, never to that of a plugin activated
\* earlier, also when the last one has no onKeyboardAction.
C24_DeliveryToActivePluginOnly ==
    [][(ClickStep /\ deliveryCount' = deliveryCount + 1)
          => lastDelivery'.plugin = active]_vars


\* C23: after activateMenuItems(p) a plugin item of the menu is enabled if
\* and only if its action is among the keyboardActions of p's class and is
\* in the registry menuItems; every other item is disabled.
C23_EnabledIffDeclaredByActive ==
    [][ActivateStep =>
          \A i \in DOMAIN appMenu' :
              (i \in enabled')
                <=> (/\ appMenu'[i].action \in ActionNames(active')
                     /\ appMenu'[i].action \in DOMAIN menuItems')]_vars

=============================================================================
